---- MODULE Spec2Model ----
(***************************************************************************)
(* Model of personal-ci-server, src/index.js.                              *)
(*                                                                         *)
(* The file holds two versions of the server.  The second one (lines       *)
(* 218-469) is the current program: a push is gated on config.deployFor    *)
(* and runs deployProcess -> buildProcess, a pull_request notification is  *)
(* ignored.  The first one (lines 1-217) runs buildProcess on every push   *)
(* and buildPRProcess on every pull_request, with nothing around them.     *)
(* Spec is the second version, SpecV1 the first.                           *)
(*                                                                         *)
(* Node runs one callback to completion before the next: a handler, and    *)
(* the continuation of an await once its promise is settled, are atomic.   *)
(* An invocation therefore has three steps: the notification (up to the    *)
(* first status post being sent), the answer of the pending post (the      *)
(* whole synchronous makeBuild and the sending of the final post), and the *)
(* answer of the final post.                                               *)
(***************************************************************************)
EXTENDS Integers, Sequences, FiniteSets, TLC

\* ------------------------------------------------------------- bounds
\* Notifications delivered in one run.
MaxInv == 2

Inv == 1..MaxInv

\* Commit SHAs of the payloads (head_commit.id, pull_request.head.sha).
SHAs == {"abc123", "def456"}

\* event.payload.ref of a push.
Refs == {"refs/heads/develop", "refs/heads/feature-x"}

\* statuses_url as its path segments: repository.statuses_url of a push is
\* templated with "{sha}", pull_request.statuses_url is not.
RepoStatusesURL == <<"repos", "statuses", "{sha}">>

PRStatusesURL == <<"repos", "statuses", "head">>

\* The status-callback URLs updateStatus is tried on: no placeholder, one
\* placeholder at each place, two placeholders.
CallbackURLs ==
  {<<"repos", "statuses", "{sha}">>, <<"repos", "statuses", "head">>,
   <<"repos", "{sha}", "statuses">>, <<"{sha}">>, <<"{sha}", "statuses", "{sha}">>}

\* Exit codes <<git clone or git pull, npm install, npm test>> of one makeBuild:
\* the test command passes and fails with 1 and with 127, and the git command
\* and the install each fail with the test command passing after them.
BuildOutcomes ==
  {<<0, 0, 0>>, <<0, 0, 1>>, <<0, 0, 127>>, <<1, 0, 0>>, <<0, 1, 0>>}

\* The working directories found at start: one commit was built by an earlier
\* run of the server, the other never.
InitialDirs ==
  {[d \in SHAs |-> IF d = "abc123" THEN "repo" ELSE "absent"]}

\* The values of config.deployFor.
DeployRefSets == {{}, {"refs/heads/develop"}}

VARIABLES
  deployFor,  \* config.deployFor, loaded once
  pc,         \* where each invocation stands
  kind,       \* "push" | "pull_request" | "none" per invocation
  payload,    \* event.payload of each invocation
  oplog,      \* every status post sent and every shell command run, in order
  dirs,       \* the working directories under PRS/, by SHA
  cwd,        \* the process-wide current directory (shell.cd)
  files,      \* the output files that exist
  clock,      \* Date.now(), one tick per notification
  outputFile, \* deployProcess's outputFile (its timestamp; -1: undefined), per invocation
  existed,    \* fs.existsSync(cwd) as makeBuild saw it, per invocation
  code,       \* code.code of makeBuild's result, per invocation
  answer      \* what the status endpoint answered: <<pending, final>> per invocation

vars == <<deployFor, pc, kind, payload, oplog, dirs, cwd, files, clock,
          outputFile, existed, code, answer>>

NoPayload == [ref |-> "", sha |-> "", statuses_url |-> <<>>]

\* event.payload of a push and of a pull_request.
PushPayloads == [ref : Refs, sha : SHAs, statuses_url : {RepoStatusesURL}]

PRPayloads == [ref : {""}, sha : SHAs, statuses_url : {PRStatusesURL}]

\* One entry of oplog.
Op(i, op, arg, url, c) == [inv |-> i, op |-> op, arg |-> arg, url |-> url, code |-> c]

Init ==
  /\ deployFor \in DeployRefSets
  /\ pc = [i \in Inv |-> "none"]
  /\ kind = [i \in Inv |-> "none"]
  /\ payload = [i \in Inv |-> NoPayload]
  /\ oplog = <<>>
  /\ dirs \in InitialDirs
  /\ cwd = "start"
  /\ files = {}
  /\ clock = 0
  /\ outputFile = [i \in Inv |-> -1]
  /\ existed = [i \in Inv |-> "unknown"]
  /\ code = [i \in Inv |-> -1]
  /\ answer = [i \in Inv |-> <<"none", "none">>]

\* ------------------------------------------------------------ helpers
\* Index of the first occurrence of token t in s, 0 when there is none.
indexOf(s, t) ==
  IF \E k \in 1..Len(s) : s[k] = t
  THEN CHOOSE k \in 1..Len(s) : s[k] = t /\ \A j \in 1..(k - 1) : s[j] # t
  ELSE 0

\* String.prototype.replace with a string pattern: the first occurrence only.
replace(s, t, by) ==
  IF indexOf(s, t) = 0 THEN s
  ELSE [k \in 1..Len(s) |-> IF k = indexOf(s, t) THEN by ELSE s[k]]

\* repoURL without the test on proc.
repoURLIgnoresProc(proc, repo, commit) == replace(repo, "{sha}", commit)

\* updateStatus's repoURL.
repoURL(proc, repo, commit) ==
  IF proc = "PR" THEN repo ELSE replace(repo, "{sha}", commit)

\* updateStatus: the request client.post sends.
updateStatus(i, proc, repo, state, commit) ==
  Op(i, "status", state, repoURL(proc, repo, commit), 0)

\* The callback of client.post: data resolves, no data rejects.
resolves(data) == data = "data"

\* cloneOrPull with the test on fs.existsSync inverted.
cloneOrPullInverted(ds, i, dir, g) ==
  IF ds[dir] # "absent"
  THEN [dirs |-> [ds EXCEPT ![dir] = IF g = 0 THEN "repo" ELSE ds[dir]],
        ops  |-> <<Op(i, "mkdir", dir, <<>>, 0),
                   Op(i, "clone", dir, <<>>, g),
                   Op(i, "cd", dir, <<>>, 0)>>]
  ELSE [dirs |-> ds,
        ops  |-> <<Op(i, "cd", dir, <<>>, 0),
                   Op(i, "pull", dir, <<>>, g)>>]

\* cloneOrPull with git pull run before shell.cd.
cloneOrPullBeforeCd(ds, i, dir, g) ==
  IF ds[dir] = "absent"
  THEN [dirs |-> [ds EXCEPT ![dir] = IF g = 0 THEN "repo" ELSE "empty"],
        ops  |-> <<Op(i, "mkdir", dir, <<>>, 0),
                   Op(i, "clone", dir, <<>>, g),
                   Op(i, "cd", dir, <<>>, 0)>>]
  ELSE [dirs |-> ds,
        ops  |-> <<Op(i, "pull", dir, <<>>, g),
                   Op(i, "cd", dir, <<>>, 0)>>]

\* makeBuild's clone-or-pull: the directories and the commands run.
\* A failed clone leaves the directory mkdir made, empty.
cloneOrPull(ds, i, dir, g) ==
  IF ds[dir] = "absent"
  THEN [dirs |-> [ds EXCEPT ![dir] = IF g = 0 THEN "repo" ELSE "empty"],
        ops  |-> <<Op(i, "mkdir", dir, <<>>, 0),
                   Op(i, "clone", dir, <<>>, g),
                   Op(i, "cd", dir, <<>>, 0)>>]
  ELSE [dirs |-> ds,
        ops  |-> <<Op(i, "cd", dir, <<>>, 0),
                   Op(i, "pull", dir, <<>>, g)>>]

\* makeBuild with npm test run before npm install.
makeBuildTestFirst(ds, fs, i, dir, out, g, n, t) ==
  [dirs  |-> cloneOrPull(ds, i, dir, g).dirs,
   cwd   |-> dir,
   files |-> fs \cup {out},
   ops   |-> cloneOrPull(ds, i, dir, g).ops
               \o <<Op(i, "test", dir, <<>>, t), Op(i, "install", dir, <<>>, n)>>,
   existed |-> ds[dir] # "absent",
   code  |-> t]

\* makeBuild(cloneURL, cwd, outputFile): g, n and t are the exit codes of
\* git clone / git pull, npm install and npm test; the result is npm test's.
makeBuild(ds, fs, i, dir, out, g, n, t) ==
  [dirs  |-> cloneOrPull(ds, i, dir, g).dirs,
   cwd   |-> dir,
   files |-> fs \cup {out},
   ops   |-> cloneOrPull(ds, i, dir, g).ops
               \o <<Op(i, "install", dir, <<>>, n), Op(i, "test", dir, <<>>, t)>>,
   existed |-> ds[dir] # "absent",
   code  |-> t]

\* The first version's makeBuild(cloneURL, cwd): npm test is not redirected.
makeBuildV1(ds, fs, i, dir, g, n, t) ==
  [makeBuild(ds, fs, i, dir, -1, g, n, t) EXCEPT !.files = fs]

\* buildProcess / buildPRProcess: the final state from code.code.
stateOf(c) == IF c = 1 THEN "failure" ELSE "success"

\* The proc and commit arguments of updateStatus for an invocation.
procOf(i) == IF kind[i] = "push" THEN "Commit" ELSE "PR"

commitOf(i) == IF kind[i] = "push" THEN payload[i].sha ELSE ""

\* deployGate with the comparison of indexOf inverted.
deployGateInverted(ref) == ref \notin deployFor

\* handler.on('push'): the test on config.deployFor.
deployGate(ref) == ref \in deployFor

\* deployProcess: the branch taken on buildStatus.
deployBranch(buildStatus) == IF buildStatus = 0 THEN "deployed" ELSE "notified"

\* The next notification gets the next invocation.
nextInv(i) == pc[i] = "none" /\ \A j \in 1..(i - 1) : pc[j] # "none"

\* ---------------------------------------------- second version (current)
\* Push with the else branch's buildProcess(event.payload) not commented out.
PushElseBuilds ==
  \E i \in Inv, p \in PushPayloads, now \in {clock + 1} :
    /\ nextInv(i)
    /\ clock' = now
    /\ kind' = [kind EXCEPT ![i] = "push"]
    /\ payload' = [payload EXCEPT ![i] = p]
    /\ IF deployGate(p.ref)
       THEN /\ outputFile' = [outputFile EXCEPT ![i] = now]
            /\ files' = files \cup {now}
            /\ oplog' = oplog \o <<Op(i, "touch", "output", <<>>, 0),
                                   updateStatus(i, "Commit", p.statuses_url, "pending", p.sha)>>
       ELSE /\ oplog' = Append(oplog, updateStatus(i, "Commit", p.statuses_url, "pending", p.sha))
            /\ UNCHANGED <<outputFile, files>>
    /\ pc' = [pc EXCEPT ![i] = "awaitPending"]
    /\ UNCHANGED <<deployFor, dirs, cwd, existed, code, answer>>

\* handler.on('push'): on a deploy ref, deployProcess up to buildProcess's
\* first await (touch, then the pending post); otherwise nothing.
Push ==
  \E i \in Inv, p \in PushPayloads, now \in {clock + 1} :
    /\ nextInv(i)
    /\ clock' = now
    /\ kind' = [kind EXCEPT ![i] = "push"]
    /\ payload' = [payload EXCEPT ![i] = p]
    /\ IF deployGate(p.ref)
       THEN /\ outputFile' = [outputFile EXCEPT ![i] = now]
            /\ files' = files \cup {now}
            /\ oplog' = oplog \o <<Op(i, "touch", "output", <<>>, 0),
                                   updateStatus(i, "Commit", p.statuses_url, "pending", p.sha)>>
            /\ pc' = [pc EXCEPT ![i] = "awaitPending"]
       ELSE /\ pc' = [pc EXCEPT ![i] = "ignored"]
            /\ UNCHANGED <<outputFile, files, oplog>>
    /\ UNCHANGED <<deployFor, dirs, cwd, existed, code, answer>>

\* handler.on('pull_request'): the call of buildPRProcess is commented out.
PullRequest ==
  \E i \in Inv, p \in PRPayloads, now \in {clock + 1} :
    /\ nextInv(i)
    /\ clock' = now
    /\ kind' = [kind EXCEPT ![i] = "pull_request"]
    /\ payload' = [payload EXCEPT ![i] = p]
    /\ pc' = [pc EXCEPT ![i] = "ignored"]
    /\ UNCHANGED <<deployFor, oplog, dirs, cwd, files, outputFile, existed, code, answer>>

\* PendingResolved with an asynchronous shell.exec: the invocation yields
\* after clone-or-pull and runs npm install and npm test in a later turn.
PendingResolvedAsync(i, b) ==
  IF existed[i] = "unknown"
  THEN /\ dirs' = b.dirs
       /\ cwd' = b.cwd
       /\ existed' = [existed EXCEPT ![i] = IF b.existed THEN "yes" ELSE "no"]
       /\ oplog' = oplog \o SubSeq(b.ops, 1, Len(b.ops) - 2)
       /\ UNCHANGED <<deployFor, kind, payload, clock, outputFile, files, code,
                      answer, pc>>
  ELSE /\ answer' = [answer EXCEPT ![i][1] = "data"]
       /\ files' = b.files
       /\ code' = [code EXCEPT ![i] = b.code]
       /\ oplog' = oplog \o SubSeq(b.ops, Len(b.ops) - 1, Len(b.ops))
                     \o <<updateStatus(i, procOf(i), payload[i].statuses_url,
                                       stateOf(b.code), commitOf(i))>>
       /\ pc' = [pc EXCEPT ![i] = "awaitFinal"]
       /\ UNCHANGED <<deployFor, kind, payload, clock, outputFile, dirs, cwd, existed>>

\* The pending post is answered with data: buildProcess goes on through
\* makeBuild and sends the final post.
PendingResolved(i, b) ==
  /\ answer' = [answer EXCEPT ![i][1] = "data"]
  /\ dirs' = b.dirs
  /\ cwd' = b.cwd
  /\ files' = b.files
  /\ existed' = [existed EXCEPT ![i] = IF b.existed THEN "yes" ELSE "no"]
  /\ code' = [code EXCEPT ![i] = b.code]
  /\ oplog' = oplog \o b.ops
                \o <<updateStatus(i, procOf(i), payload[i].statuses_url,
                                  stateOf(b.code), commitOf(i))>>
  /\ pc' = [pc EXCEPT ![i] = "awaitFinal"]
  /\ UNCHANGED <<deployFor, kind, payload, clock, outputFile>>

\* A rejected post ends the invocation at `where`.
Rejected(i, k, where) ==
  /\ answer' = [answer EXCEPT ![i][k] = "empty"]
  /\ pc' = [pc EXCEPT ![i] = where]
  /\ UNCHANGED <<deployFor, kind, payload, oplog, dirs, cwd, files, clock,
                 outputFile, existed, code>>

\* The final post is answered with data: the invocation ends at `where`.
FinalResolved(i, where) ==
  /\ answer' = [answer EXCEPT ![i][2] = "data"]
  /\ pc' = [pc EXCEPT ![i] = where]
  /\ UNCHANGED <<deployFor, kind, payload, oplog, dirs, cwd, files, clock,
                 outputFile, existed, code>>

\* The answer of the pending post, under deployProcess's try/catch.
PendingAnswered ==
  \E i \in Inv, data \in {"data", "empty"} :
    /\ pc[i] = "awaitPending"
    /\ IF resolves(data)
       THEN \E o \in BuildOutcomes :
              PendingResolved(i, makeBuild(dirs, files, i, payload[i].sha,
                                           outputFile[i], o[1], o[2], o[3]))
       ELSE Rejected(i, 1, "caught")

\* FinalAnswered with a callback that never calls resolve(data): the await of
\* the final post is never completed by an answer with data.
FinalAnsweredNoResolve ==
  \E i \in Inv, data \in {"data", "empty"} :
    /\ pc[i] = "awaitFinal"
    /\ answer[i][2] = "none"
    /\ IF resolves(data)
       THEN /\ answer' = [answer EXCEPT ![i][2] = "data"]
            /\ UNCHANGED <<deployFor, pc, kind, payload, oplog, dirs, cwd, files,
                           clock, outputFile, existed, code>>
       ELSE Rejected(i, 2, "caught")

\* The answer of the final post: buildProcess returns code.code and
\* deployProcess branches on it; a rejection is caught.
FinalAnswered ==
  \E i \in Inv, data \in {"data", "empty"} :
    /\ pc[i] = "awaitFinal"
    /\ IF resolves(data)
       THEN FinalResolved(i, deployBranch(code[i]))
       ELSE Rejected(i, 2, "caught")

Next == Push \/ PullRequest \/ PendingAnswered \/ FinalAnswered

Spec == Init /\ [][Next]_vars

\* ------------------------------------------------------- first version
\* handler.on('push'): buildProcess(event.payload), for every ref.
PushV1 ==
  \E i \in Inv, p \in PushPayloads, now \in {clock + 1} :
    /\ nextInv(i)
    /\ clock' = now
    /\ kind' = [kind EXCEPT ![i] = "push"]
    /\ payload' = [payload EXCEPT ![i] = p]
    /\ oplog' = Append(oplog, updateStatus(i, "Commit", p.statuses_url, "pending", p.sha))
    /\ pc' = [pc EXCEPT ![i] = "awaitPending"]
    /\ UNCHANGED <<deployFor, dirs, cwd, files, outputFile, existed, code, answer>>

\* handler.on('pull_request'): buildPRProcess(event.payload).
PullRequestV1 ==
  \E i \in Inv, p \in PRPayloads, now \in {clock + 1} :
    /\ nextInv(i)
    /\ clock' = now
    /\ kind' = [kind EXCEPT ![i] = "pull_request"]
    /\ payload' = [payload EXCEPT ![i] = p]
    /\ oplog' = Append(oplog, updateStatus(i, "PR", p.statuses_url, "pending", ""))
    /\ pc' = [pc EXCEPT ![i] = "awaitPending"]
    /\ UNCHANGED <<deployFor, dirs, cwd, files, outputFile, existed, code, answer>>

\* The answer of the pending post; nothing catches a rejection.
PendingAnsweredV1 ==
  \E i \in Inv, data \in {"data", "empty"} :
    /\ pc[i] = "awaitPending"
    /\ IF resolves(data)
       THEN \E o \in BuildOutcomes :
              PendingResolved(i, makeBuildV1(dirs, files, i, payload[i].sha,
                                             o[1], o[2], o[3]))
       ELSE Rejected(i, 1, "unhandled")

\* The answer of the final post; nothing catches a rejection.
FinalAnsweredV1 ==
  \E i \in Inv, data \in {"data", "empty"} :
    /\ pc[i] = "awaitFinal"
    /\ IF resolves(data)
       THEN FinalResolved(i, "done")
       ELSE Rejected(i, 2, "unhandled")

NextV1 == PushV1 \/ PullRequestV1 \/ PendingAnsweredV1 \/ FinalAnsweredV1

SpecV1 == Init /\ [][NextV1]_vars

\* ------------------------------------------------------------- claims
\* What invocation i did, in order.
opsOf(i) == SelectSeq(oplog, LAMBDA e : e.inv = i)

\* The states invocation i passed to updateStatus, in order.
statesOf(i) ==
  [k \in 1..Len(SelectSeq(oplog, LAMBDA e : e.inv = i /\ e.op = "status")) |->
     SelectSeq(oplog, LAMBDA e : e.inv = i /\ e.op = "status")[k].arg]

\* The shell commands of makeBuild invocation i ran, in order.
buildOf(i) ==
  [k \in 1..Len(SelectSeq(oplog, LAMBDA e : e.inv = i /\ e.op \notin {"status", "touch"})) |->
     SelectSeq(oplog, LAMBDA e : e.inv = i /\ e.op \notin {"status", "touch"})[k].op]

\* makeBuild ran in invocation i.
built(i) == buildOf(i) # <<>>

\* Invocation i is a pipeline execution that has ended.
ended(i) == pc[i] \in {"caught", "deployed", "notified", "done", "unhandled"}

\* Position in oplog of the k-th status post of invocation i.
statusAt(i, k) ==
  CHOOSE n \in 1..Len(oplog) :
    /\ oplog[n].inv = i /\ oplog[n].op = "status"
    /\ Cardinality({m \in 1..n : oplog[m].inv = i /\ oplog[m].op = "status"}) = k

\* C1: every pipeline execution calls updateStatus exactly twice, `pending`
\* before makeBuild and then `success` or `failure` after it, whatever the
\* status posts and the build answer.
C1_TwoStatusCalls ==
  \A i \in Inv :
    ended(i) =>
      /\ Len(statesOf(i)) = 2
      /\ statesOf(i)[1] = "pending"
      /\ statesOf(i)[2] \in {"success", "failure"}
      /\ built(i)
      /\ \A n \in 1..Len(oplog) :
           (oplog[n].inv = i /\ oplog[n].op \notin {"status", "touch"})
             => statusAt(i, 1) < n /\ n < statusAt(i, 2)

\* C2: the final status posted is `success` when the test command's exit
\* code is 0 and `failure` for every other exit code.
C2_ExitCodeToStatus ==
  \A i \in Inv :
    Len(statesOf(i)) = 2 =>
      statesOf(i)[2] = (IF code[i] = 0 THEN "success" ELSE "failure")

\* C3: on a push, buildProcess is invoked if and only if event.payload.ref
\* is in config.deployFor.
C3_DeployGate ==
  \A i \in Inv :
    kind[i] = "push" =>
      ((statesOf(i) # <<>>) <=> (payload[i].ref \in deployFor))

C3_Witness ==
  \E i, j \in Inv :
    /\ kind[i] = "push" /\ payload[i].ref \in deployFor /\ statesOf(i) # <<>>
    /\ kind[j] = "push" /\ payload[j].ref \notin deployFor /\ pc[j] = "ignored"

\* C4: when the `pending` post is answered with an empty response, makeBuild
\* still runs for that invocation.
C4_BuildAfterFailedPending ==
  \A i \in Inv : answer[i][1] = "empty" => built(i)

\* C5: when a status post of a push-triggered pipeline fails, deployProcess
\* still reaches its decision, the deploy branch on exit code 0 and the
\* failure branch otherwise.
C5_DecisionAfterFailedPost ==
  \A i \in Inv :
    (kind[i] = "push" /\ "empty" \in {answer[i][1], answer[i][2]}) =>
      /\ pc[i] \in {"deployed", "notified"}
      /\ (pc[i] = "deployed") <=> (code[i] = 0)

\* C6: deployProcess enters the deploy branch if and only if the final status
\* posted was `success`, and the failure branch if and only if it was `failure`.
C6_BranchMatchesStatus ==
  \A i \in Inv :
    pc[i] \in {"deployed", "notified"} =>
      /\ (pc[i] = "deployed") <=> (statesOf(i)[2] = "success")
      /\ (pc[i] = "notified") <=> (statesOf(i)[2] = "failure")

\* The statuses posted for commit sha, over all invocations, in order.
postedFor(sha) ==
  [k \in 1..Len(SelectSeq(oplog, LAMBDA e : e.op = "status" /\ payload[e.inv].sha = sha)) |->
     SelectSeq(oplog, LAMBDA e : e.op = "status" /\ payload[e.inv].sha = sha)[k].arg]

\* C7: for every commit SHA the statuses posted are one `pending` followed by
\* one of `success`/`failure`: `pending` is never posted twice, and once every
\* invocation for the SHA has ended a posted `pending` has its final status.
C7_OneSequencePerTarget ==
  \A sha \in SHAs :
    /\ Len(postedFor(sha)) <= 2
    /\ Len(postedFor(sha)) >= 1 => postedFor(sha)[1] = "pending"
    /\ Len(postedFor(sha)) = 2 => postedFor(sha)[2] \in {"success", "failure"}
    /\ (Len(postedFor(sha)) >= 1 /\ \A i \in Inv : payload[i].sha = sha => ended(i))
         => Len(postedFor(sha)) = 2

\* C8: no invocation ends as an uncaught exception or unhandled rejection.
C8_NothingUnhandled ==
  \A i \in Inv : pc[i] # "unhandled"

\* The commands the step added to oplog.
added == [k \in 1..(Len(oplog') - Len(oplog)) |-> oplog'[Len(oplog) + k].op]

\* C9: makeBuild on a working directory that does not exist creates it and
\* runs git clone into it; on one that exists it runs git pull and neither
\* mkdir nor git clone.
C9_CloneOrPull ==
  [][\A i \in Inv :
       (pc[i] = "awaitPending" /\ pc'[i] = "awaitFinal") =>
         IF dirs[payload[i].sha] = "absent"
         THEN /\ SubSeq(added, 1, 2) = <<"mkdir", "clone">>
              /\ \A k \in 1..Len(added) : added[k] # "pull"
              /\ dirs'[payload[i].sha] # "absent"
              /\ oplog'[Len(oplog) + 2].arg = payload[i].sha
         ELSE /\ \E k \in 1..Len(added) : added[k] = "pull"
              /\ \A k \in 1..Len(added) : added[k] \notin {"clone", "mkdir"}
              /\ dirs' = dirs]_vars

C9_Witness ==
  \E i, j \in Inv :
    /\ existed[i] = "no" /\ "clone" \in {buildOf(i)[k] : k \in 1..Len(buildOf(i))}
    /\ existed[j] = "yes" /\ "pull" \in {buildOf(j)[k] : k \in 1..Len(buildOf(j))}

\* C10: a push whose ref is not in config.deployFor is a no-op: it posts no
\* status, creates or changes no working directory and no output file, and
\* leaves the current directory alone, when it arrives and ever after.
C10_IgnoredPushNoOp ==
  /\ [](\A i \in Inv :
          (kind[i] = "push" /\ payload[i].ref \notin deployFor) => opsOf(i) = <<>>)
  /\ [][\A i \in Inv :
          (pc[i] = "none" /\ kind'[i] = "push" /\ payload'[i].ref \notin deployFor)
            => UNCHANGED <<oplog, dirs, files, cwd, outputFile>>]_vars

C10_Witness ==
  \E i, j \in Inv :
    /\ kind[i] = "push" /\ payload[i].ref \notin deployFor /\ pc[i] = "ignored"
    /\ i < j /\ kind[j] = "push" /\ pc[j] = "deployed"

\* The positions in oplog of the shell commands of invocation i.
cmdsOf(i) ==
  {n \in 1..Len(oplog) : oplog[n].inv = i /\ oplog[n].op \notin {"status", "touch"}}

\* C11: a failed git clone / git pull or npm install gives a non-zero build
\* result: the pipeline posts `failure` and the deploy branch is not entered.
C11_StepFailureIsFailure ==
  \A i \in Inv :
    (\E n \in cmdsOf(i) : oplog[n].op \in {"clone", "pull", "install"} /\ oplog[n].code # 0)
      => /\ code[i] # 0
         /\ statesOf(i)[2] = "failure"
         /\ pc[i] # "deployed"

\* C12: no retry, and a failure ends the invocation: after a failed status
\* post the invocation posts no further status and runs no build step, after
\* a failed clone it runs no further step, and nothing is attempted twice.
C12_FailureEndsInvocation ==
  \A i \in Inv :
    /\ answer[i][1] = "empty" => (Len(statesOf(i)) = 1 /\ ~built(i))
    /\ answer[i][2] = "empty" => Len(statesOf(i)) = 2
    /\ \A n \in cmdsOf(i) :
         (oplog[n].op = "clone" /\ oplog[n].code # 0)
           => \A m \in (n + 1)..Len(oplog) : oplog[m].inv # i
    /\ \A n, m \in cmdsOf(i) : oplog[n].op = oplog[m].op => n = m
    /\ \A n, m \in 1..Len(oplog) :
         (oplog[n].inv = i /\ oplog[m].inv = i /\ oplog[n].op = "status"
            /\ oplog[m].op = "status" /\ oplog[n].arg = oplog[m].arg) => n = m

\* C13: every pull_request notification is dispatched to buildPRProcess,
\* which posts `pending` and, once it has ended, a final status to the pull
\* request's statuses URL.
C13_PullRequestDispatched ==
  \A i \in Inv :
    kind[i] = "pull_request" =>
      /\ Len(statesOf(i)) >= 1
      /\ statesOf(i)[1] = "pending"
      /\ \A n \in 1..Len(oplog) :
           (oplog[n].inv = i /\ oplog[n].op = "status")
             => oplog[n].url = payload[i].statuses_url
      /\ ended(i) => (Len(statesOf(i)) = 2 /\ statesOf(i)[2] \in {"success", "failure"})

\* ------------------------------------------------- updateStatus alone
\* updateStatus('Commit', repo, status, commit), for every repo and commit.
UpdateStatusCommit ==
  \E i \in Inv, repo \in CallbackURLs, commit \in SHAs :
    /\ nextInv(i)
    /\ kind' = [kind EXCEPT ![i] = "push"]
    /\ payload' = [payload EXCEPT ![i] = [ref |-> "", sha |-> commit, statuses_url |-> repo]]
    /\ oplog' = Append(oplog, updateStatus(i, "Commit", repo, "pending", commit))
    /\ pc' = [pc EXCEPT ![i] = "awaitPending"]
    /\ UNCHANGED <<deployFor, dirs, cwd, files, clock, outputFile, existed, code, answer>>

\* updateStatus('PR', repo, status) and updateStatus('PR', repo, status, commit).
UpdateStatusPR ==
  \E i \in Inv, repo \in CallbackURLs, commit \in SHAs \cup {""} :
    /\ nextInv(i)
    /\ kind' = [kind EXCEPT ![i] = "pull_request"]
    /\ payload' = [payload EXCEPT ![i] = [ref |-> "", sha |-> commit, statuses_url |-> repo]]
    /\ oplog' = Append(oplog, updateStatus(i, "PR", repo, "pending", commit))
    /\ pc' = [pc EXCEPT ![i] = "awaitPending"]
    /\ UNCHANGED <<deployFor, dirs, cwd, files, clock, outputFile, existed, code, answer>>

NextURL == UpdateStatusCommit \/ UpdateStatusPR

SpecURL == Init /\ [][NextURL]_vars

\* The places of the placeholder in a callback URL.
placeholders(u) == {k \in 1..Len(u) : u[k] = "{sha}"}

\* C14: in commit mode updateStatus posts to the callback URL with the commit
\* SHA in the place of the (first) `{sha}` placeholder and every other segment
\* as it was; in pull-request mode it posts to the callback URL unchanged.
C14_StatusURL ==
  \A n \in 1..Len(oplog) :
    oplog[n].op = "status" =>
      LET u == payload[oplog[n].inv].statuses_url
          c == payload[oplog[n].inv].sha
          r == oplog[n].url
      IN  IF kind[oplog[n].inv] = "pull_request"
          THEN r = u
          ELSE /\ Len(r) = Len(u)
               /\ \A k \in 1..Len(u) :
                    r[k] = IF k \in placeholders(u) /\ \A j \in placeholders(u) : k <= j
                           THEN c ELSE u[k]
               /\ Cardinality(placeholders(u)) = 1 => placeholders(r) = {}

C14_Witness ==
  \E n, m \in 1..Len(oplog) :
    /\ kind[oplog[n].inv] = "push"
    /\ payload[oplog[n].inv].statuses_url = <<"repos", "statuses", "{sha}">>
    /\ oplog[n].url = <<"repos", "statuses", "abc123">>
    /\ kind[oplog[m].inv] = "pull_request"
    /\ placeholders(payload[oplog[m].inv].statuses_url) # {}
    /\ payload[oplog[m].inv].sha # ""
    /\ oplog[m].url = payload[oplog[m].inv].statuses_url

\* The operations of invocation i, by name, in order.
namesOf(i) == [k \in 1..Len(opsOf(i)) |-> opsOf(i)[k].op]

\* namesOf(i) without the touch of deployProcess.
stepsOf(i) == SelectSeq(namesOf(i), LAMBDA o : o # "touch")

\* The steps of one whole invocation, by whether the directory existed.
cloneRun == <<"status", "mkdir", "clone", "cd", "install", "test", "status">>

pullRun == <<"status", "cd", "pull", "install", "test", "status">>

\* C15: the steps of an invocation are sequential: makeBuild starts only after
\* the `pending` post was answered, clone or pull, install and test follow
\* one another in that order, and the final status is posted only after the
\* test command, whose exit code is then known.
C15_Sequential ==
  \A i \in Inv :
    /\ stepsOf(i) \in {<<>>, <<"status">>, cloneRun, pullRun}
    /\ built(i) => answer[i][1] = "data"
    /\ Len(statesOf(i)) = 2 =>
         /\ code[i] # -1
         /\ \E n \in cmdsOf(i) :
              oplog[n].op = "test" /\ oplog[n].code = code[i] /\ n < statusAt(i, 2)
    /\ Len(statesOf(i)) >= 1 => statesOf(i)[1] = "pending"

C15_Witness ==
  \E i, j \in Inv :
    /\ stepsOf(i) = cloneRun /\ stepsOf(j) = pullRun
    /\ statusAt(j, 1) < statusAt(i, 2)
    /\ pc[i] \in {"deployed", "notified"} /\ pc[j] \in {"deployed", "notified"}

\* The process-wide current directory when oplog[n] ran: the directory of the
\* last shell.cd before it, of whichever invocation.
cwdAt(n) ==
  IF \E m \in 1..(n - 1) : oplog[m].op = "cd"
  THEN oplog[CHOOSE m \in 1..(n - 1) :
               oplog[m].op = "cd" /\ \A k \in (m + 1)..(n - 1) : oplog[k].op # "cd"].arg
  ELSE "start"

\* C16 as stated: every clone, pull, install and test of an invocation runs
\* with the current directory equal to the invocation's own working directory.
C16_OwnDirectoryAlways ==
  \A n \in 1..Len(oplog) :
    oplog[n].op \in {"clone", "pull", "install", "test"}
      => cwdAt(n) = payload[oplog[n].inv].sha

\* C16, amended: git pull, npm install and npm test run with the current
\* directory equal to the invocation's own working directory; git clone runs
\* before shell.cd, in whatever directory the process was left in, with the
\* invocation's own directory as its target; and a build changes no working
\* directory but its own.
C16_OwnDirectory ==
  /\ [](\A n \in 1..Len(oplog) :
          /\ oplog[n].op \in {"pull", "install", "test"}
               => cwdAt(n) = payload[oplog[n].inv].sha
          /\ oplog[n].op \in {"mkdir", "clone", "cd"}
               => oplog[n].arg = payload[oplog[n].inv].sha)
  /\ [][\A i \in Inv :
          (pc[i] = "awaitPending" /\ pc'[i] = "awaitFinal")
            => /\ \A d \in SHAs \ {payload[i].sha} : dirs'[d] = dirs[d]
               /\ cwd' = payload[i].sha]_vars

C16_Witness ==
  \E n, m \in 1..Len(oplog) :
    /\ oplog[n].op = "clone" /\ cwdAt(n) \in SHAs /\ cwdAt(n) # payload[oplog[n].inv].sha
    /\ oplog[m].op = "test" /\ oplog[m].inv = oplog[n].inv /\ cwdAt(m) = payload[oplog[m].inv].sha
    /\ \E j \in Inv : j # oplog[n].inv /\ pc[j] = "awaitFinal" /\ pc[oplog[n].inv] = "awaitFinal"

\* C17: the build steps of two invocations never interleave: between the
\* first and the last shell command of one makeBuild no other invocation
\* does anything, also when both build the same commit.
C17_BuildsDoNotInterleave ==
  \A i \in Inv :
    \A n, m \in cmdsOf(i) :
      \A k \in n..m : oplog[k].inv = i

\* Two invocations for the same commit, both waiting for their pending post
\* before either built, have both built.
C17_Witness ==
  \E i, j \in Inv :
    /\ i # j /\ payload[i].sha = payload[j].sha
    /\ built(i) /\ built(j)
    /\ \A n \in cmdsOf(i) \cup cmdsOf(j) : statusAt(i, 1) < n /\ statusAt(j, 1) < n

\* ------------------------------------------------------------ liveness
\* Every status post is eventually answered; the shell commands, being
\* synchronous steps of PendingAnswered, terminate with it.
FairSpec == Spec /\ WF_vars(PendingAnswered) /\ WF_vars(FinalAnswered)

\* The outcomes of deployProcess.
outcomes == {"deployed", "notified", "caught"}

\* C18: every push invocation for a deploy ref eventually reaches one of the
\* deploy branch, the failure branch and the catch branch of deployProcess,
\* and once there never leaves it for another.
C18_OneOutcome ==
  /\ \A i \in Inv :
       (kind[i] = "push" /\ payload[i].ref \in deployFor) ~> (pc[i] \in outcomes)
  /\ [][\A i \in Inv : pc[i] \in outcomes => pc'[i] = pc[i]]_vars

C18_Witness ==
  \E i, j \in Inv :
    /\ kind[i] = "push" /\ pc[i] = "caught" /\ answer[i][2] = "empty"
    /\ kind[j] = "push" /\ pc[j] = "deployed"

====
